---- MODULE Spec2Model ----
(***************************************************************************)
(* cellar-static-deploy: the deployment orchestrator (index.ts main), the  *)
(* bucket check / creation and the batch clearer (s3-client.ts) and the    *)
(* upload worker pool (file-utils.ts), as one state machine.               *)
(*                                                                         *)
(* Execution model: one JavaScript event loop.  Code between two awaits    *)
(* runs to completion, so one action is one continuation: it starts when   *)
(* an awaited call settles and ends at the next await.  Network calls that *)
(* run concurrently (the deletes of a page, the puts of the workers) are   *)
(* in flight between the action that issues them and the action in which   *)
(* they settle.                                                            *)
(*                                                                         *)
(* Strings (paths, keys) are sequences of one-character strings.           *)
(***************************************************************************)
EXTENDS Integers, Sequences, FiniteSets, TLC

(***************************************************************************)
(* Bounds of the model.                                                    *)
(***************************************************************************)
\* BATCH_DELETE_SIZE is 1000 in src/src/types.ts:14; the model runs the same
\* loop with a page of PageScale entries.
PageScale == 2
\* Largest value of --workers explored; 0 stands for every value for which the
\* launch loop of uploadFolder runs zero times (0, negative, NaN).
MaxWorkers == 2
\* Number of local files at most, and of pre-existing keyed objects at most.
MaxFiles == 3
MaxOld == 3
\* Number of listing entries without a key at most (a full page of them at
\* least).
MaxKeyless == 2
\* The history counters listCalls and batchCount count up to MaxListCalls and
\* stay there; a pass that returns makes at most MaxOld + 1 listings, which
\* they count exactly.
MaxListCalls == 4

(***************************************************************************)
(* Strings.                                                                *)
(***************************************************************************)
\* String.prototype.startsWith at a position: pat occurs in s at index i.
OccursAt(s, pat, i) ==
  /\ i >= 1
  /\ i + Len(pat) - 1 =< Len(s)
  /\ \A j \in 1..Len(pat) : s[i + j - 1] = pat[j]

\* s.replace(pat, "") with a string pattern: the first occurrence is removed,
\* s is returned unchanged when there is none.
ReplaceFirstWithEmpty(s, pat) ==
  LET hits == { i \in 1..(Len(s) + 1) : OccursAt(s, pat, i) }
  IN  IF hits = {} THEN s
      ELSE LET i == CHOOSE h \in hits : \A g \in hits : h =< g
           IN  SubSeq(s, 1, i - 1) \o SubSeq(s, i + Len(pat), Len(s))

\* s.replace(/^\//, ""): one leading forward slash is removed.
StripLeadingSlash(s) ==
  IF s # <<>> /\ Head(s) = "/" THEN Tail(s) ELSE s

RECURSIVE SplitOnSlash(_, _)
SplitOnSlash(s, cur) ==
  IF s = <<>> THEN <<cur>>
  ELSE IF Head(s) = "/" THEN <<cur>> \o SplitOnSlash(Tail(s), <<>>)
       ELSE SplitOnSlash(Tail(s), Append(cur, Head(s)))

RECURSIVE JoinWithSlash(_)
JoinWithSlash(segs) ==
  IF segs = <<>> THEN <<>>
  ELSE IF Len(segs) = 1 THEN Head(segs)
       ELSE Head(segs) \o <<"/">> \o JoinWithSlash(Tail(segs))

IsRealSegment(seg) == seg # <<>> /\ seg # <<".">>

\* path.posix.normalize for paths without "..": empty and "." segments go,
\* a leading slash stays, the empty result is ".".
Normalize(p) ==
  LET segs == SelectSeq(SplitOnSlash(p, <<>>), IsRealSegment)
      abs  == p # <<>> /\ Head(p) = "/"
      body == JoinWithSlash(segs)
  IN  IF abs THEN <<"/">> \o body
      ELSE IF body = <<>> THEN <<".">> ELSE body

\* path.join(dir, entry) (node:path, POSIX host).
PathJoin(dir, entry) == Normalize(dir \o <<"/">> \o entry)

(***************************************************************************)
(* Inputs: what the command line, the local disk and the store may hold.   *)
(***************************************************************************)
Commands == {"deploy", "help", "check-dns"}

\* --path as the user may type it: dist, ./dist, dist/ and the current directory.
RootForms ==
  { <<"d">>, <<".", "/", "d">>, <<"d", "/">>, <<".">> }

\* Files below the root, each as the sequence of its directory entries.
LocalEntries ==
  << << <<"a", ".", "h">> >>,
     << <<"b">>, <<"c">> >>,
     << <<"e">> >>,
     << <<"b">>, <<"f">> >>,
     << <<"g">> >> >>

\* Keys of objects a bucket may hold before the run (two of them are also the
\* relative paths of local files).
OldKeyList ==
  << <<"a", ".", "h">>, <<"x">>, <<"b", "/", "c">>, <<"y">>, <<"z">> >>

Min(a, b) == IF a =< b THEN a ELSE b

LocalChoices == 1..Min(MaxFiles, Len(LocalEntries))
OldKeys      == { OldKeyList[i] : i \in 1..Min(MaxOld, Len(OldKeyList)) }

\* Statuses the create request may answer with.
HttpStatuses == {200, 204, 403, 409, 500}

(***************************************************************************)
(* Program constants and pure functions.                                   *)
(***************************************************************************)
BATCH_DELETE_SIZE == PageScale

\* getAllFiles: every directory level joins the directory and the entry name.
RECURSIVE FullPath(_, _)
FullPath(dir, entries) ==
  IF entries = <<>> THEN dir
  ELSE FullPath(PathJoin(dir, Head(entries)), Tail(entries))

\* getAllFiles(folderPath) for the tree made of the chosen local files, in
\* directory order.
RECURSIVE getAllFiles(_, _, _)
getAllFiles(root, chosen, i) ==
  IF i > Len(LocalEntries) THEN <<>>
  ELSE (IF i \in chosen THEN <<FullPath(root, LocalEntries[i])>> ELSE <<>>)
       \o getAllFiles(root, chosen, i + 1)

\* uploadFile: the key the file is written to.
uploadKey(filePath, root) ==
  StripLeadingSlash(ReplaceFirstWithEmpty(filePath, root))

\* createBucket with the status test left out: every response is a success.
createSucceededAnyStatus(status) == TRUE

\* createBucket taking only status 200 as success.
createSucceededOnly200(status) == status = 200

\* createBucket: the statuses taken as success.
createSucceeded(status) ==
  (status >= 200 /\ status =< 299) \/ status = 200 \/ status = 409

(***************************************************************************)
(* Paths on a host of either separator convention.                         *)
(***************************************************************************)
\* The separators node:path recognises on a host: "/" on a POSIX host, "/" and
\* "\" on a Windows host, whose own separator is "\".
HostSeps == {"/", "\\"}
IsSep(c, host) == c = "/" \/ (host = "\\" /\ c = "\\")

RECURSIVE SplitOnSeps(_, _, _)
SplitOnSeps(s, cur, host) ==
  IF s = <<>> THEN <<cur>>
  ELSE IF IsSep(Head(s), host)
         THEN <<cur>> \o SplitOnSeps(Tail(s), <<>>, host)
         ELSE SplitOnSeps(Tail(s), Append(cur, Head(s)), host)

RECURSIVE JoinWith(_, _)
JoinWith(segs, sep) ==
  IF segs = <<>> THEN <<>>
  ELSE IF Len(segs) = 1 THEN Head(segs)
       ELSE Head(segs) \o <<sep>> \o JoinWith(Tail(segs), sep)

\* path.normalize of the host for relative paths without "..": empty and "."
\* segments go, the segments are joined with the host's separator, the empty
\* result is ".".
NormalizeOn(p, host) ==
  LET body == JoinWith(SelectSeq(SplitOnSeps(p, <<>>, host), IsRealSegment), host)
  IN  IF body = <<>> THEN <<".">> ELSE body

\* path.join(dir, entry) of the host.
PathJoinOn(host, dir, entry) == NormalizeOn(dir \o <<host>> \o entry, host)

\* getAllFiles on the host: the path of the file reached through the entries.
RECURSIVE FullPathOn(_, _, _)
FullPathOn(host, dir, entries) ==
  IF entries = <<>> THEN dir
  ELSE FullPathOn(host, PathJoinOn(host, dir, Head(entries)), Tail(entries))

\* --path as the user may type it on the host.
RootFormsOn(host) ==
  IF host = "/" THEN RootForms
  ELSE RootForms \cup { <<".", "\\", "d">>, <<"d", "\\">> }

(***************************************************************************)
(* getContentType (file-utils.ts).                                         *)
(***************************************************************************)
UpperCaseLetters == <<"A", "B", "C", "D", "E", "F", "G", "H", "I", "J", "K", "L", "M", "N", "O", "P", "Q", "R", "S", "T", "U", "V", "W", "X", "Y", "Z">>
LowerCaseLetters == <<"a", "b", "c", "d", "e", "f", "g", "h", "i", "j", "k", "l", "m", "n", "o", "p", "q", "r", "s", "t", "u", "v", "w", "x", "y", "z">>

\* String.prototype.toLowerCase on the letters A-Z.
toLowerCase(s) ==
  [i \in 1..Len(s) |->
     IF \E k \in 1..Len(UpperCaseLetters) : UpperCaseLetters[k] = s[i]
       THEN LowerCaseLetters[CHOOSE k \in 1..Len(UpperCaseLetters) :
                                UpperCaseLetters[k] = s[i]]
       ELSE s[i]]

\* s.split('.'): the pieces between the dots, s itself when it has no dot.
RECURSIVE SplitOnDot(_, _)
SplitOnDot(s, cur) ==
  IF s = <<>> THEN <<cur>>
  ELSE IF Head(s) = "." THEN <<cur>> \o SplitOnDot(Tail(s), <<>>)
       ELSE SplitOnDot(Tail(s), Append(cur, Head(s)))

\* The extension to MIME type table.
mimeTypes ==
  { <<<<"h", "t", "m", "l">>, "text/html">>,
    <<<<"h", "t", "m">>, "text/html">>,
    <<<<"c", "s", "s">>, "text/css">>,
    <<<<"j", "s">>, "application/javascript">>,
    <<<<"m", "j", "s">>, "application/javascript">>,
    <<<<"j", "s", "o", "n">>, "application/json">>,
    <<<<"p", "n", "g">>, "image/png">>,
    <<<<"j", "p", "g">>, "image/jpeg">>,
    <<<<"j", "p", "e", "g">>, "image/jpeg">>,
    <<<<"g", "i", "f">>, "image/gif">>,
    <<<<"s", "v", "g">>, "image/svg+xml">>,
    <<<<"w", "e", "b", "p">>, "image/webp">>,
    <<<<"i", "c", "o">>, "image/x-icon">>,
    <<<<"p", "d", "f">>, "application/pdf">>,
    <<<<"t", "x", "t">>, "text/plain">>,
    <<<<"x", "m", "l">>, "application/xml">>,
    <<<<"w", "o", "f", "f">>, "font/woff">>,
    <<<<"w", "o", "f", "f", "2">>, "font/woff2">>,
    <<<<"t", "t", "f">>, "font/ttf">>,
    <<<<"e", "o", "t">>, "application/vnd.ms-fontobject">> }

MimeExtensions == { p[1] : p \in mimeTypes }

\* Lower-case property names every object inherits from Object.prototype: a
\* lookup of one of them in the table object finds the inherited member.
InheritedKeys == { <<"c", "o", "n", "s", "t", "r", "u", "c", "t", "o", "r">>, <<"_", "_", "p", "r", "o", "t", "o", "_", "_">> }

\* getContentType: the table entry of the last piece of the lower-cased name
\* split on dots, application/octet-stream when the lookup finds nothing.
getContentType(filename) ==
  LET parts == SplitOnDot(toLowerCase(filename), <<>>)
      ext   == parts[Len(parts)]
  IN  IF ext \in MimeExtensions
        THEN (CHOOSE p \in mimeTypes : p[1] = ext)[2]
        ELSE IF ext \in InheritedKeys THEN "[Object.prototype member]"
        ELSE "application/octet-stream"

\* uploadFile: the content type of the put; fileType is file.type, "" when the
\* file has none.
uploadType(fileType, relativePath) ==
  IF fileType # "" THEN fileType ELSE getContentType(relativePath)

\* Relative paths whose content type is asked for.
PathSamples ==
  { <<"a", ".", "h", "t", "m", "l">>,
    <<"A", ".", "H", "T", "M", "L">>,
    <<"b", "/", "c", ".", "c", "s", "s">>,
    <<"d", ".", "p", "n", "g">>,
    <<"p", ".", "J", "p", "e", "g">>,
    <<"x", ".", "z", "i", "p">>,
    <<"a", ".", "t", "a", "r", ".", "g", "z">>,
    <<"r", "e", "a", "d", "m", "e">>,
    <<"b", ".", "d", "/", "c">>,
    <<"b", "/", "c", "s", "s">>,
    <<"t", "x", "t">>,
    <<"a", ".">>,
    <<"c", "o", "n", "s", "t", "r", "u", "c", "t", "o", "r">> }

\* Values of file.type: none, or one given by the local file.
FileTypes == {"", "text/markdown"}

(***************************************************************************)
(* calculateStats (types.ts) and the rates of uploadFolder.                *)
(***************************************************************************)
\* Largest count and largest number of elapsed milliseconds explored.
MaxCount == 3
MaxElapsedMs == 3

\* The code sites that compute a rate: calculateStats in clearBucket, and
\* updateProgress and the summary in uploadFolder.
RateSites == {"calculateStats", "updateProgress", "summary"}

\* (count / ms * 1000).toFixed(1): a number with one decimal (held in tenths),
\* or the text of the non-finite result of a division by zero.
rate(count, ms) ==
  IF ms = 0
    THEN [text |-> IF count = 0 THEN "NaN" ELSE "Infinity", tenths |-> 0]
    ELSE [text |-> "number", tenths |-> (2 * count * 10000 + ms) \div (2 * ms)]

\* calculateStats(startTime, count), elapsedMs milliseconds after startTime
\* (Date.now() - startTime): elapsed is (elapsedMs / 1000).toFixed(1), held in
\* tenths of a second.
calculateStats(elapsedMs, count) ==
  [elapsed |-> (elapsedMs + 50) \div 100, rate |-> rate(count, elapsedMs)]

(***************************************************************************)
(* checkDnsCname (dns-utils.ts) and validateSubdomain (types.ts).          *)
(***************************************************************************)
CELLAR_HOSTNAME == "cellar-c2.services.clever-cloud.com"

\* Domains the user may give: www.example.com, a.www.example.com, example.com,
\* example.com with a trailing dot, a single label, blank and empty input.
Domains ==
  { <<"w", ".", "e", ".", "c">>,
    <<"a", ".", "w", ".", "e", ".", "c">>,
    <<"e", ".", "c">>,
    <<"e", ".", "c", ".">>,
    <<"c">>, <<" ">>, <<>> }

\* Answers of dns.resolveCname: a rejection, or the list of CNAME targets.
CnameAnswers ==
  { [ok |-> FALSE, records |-> <<>>],
    [ok |-> TRUE,  records |-> <<>>],
    [ok |-> TRUE,  records |-> <<CELLAR_HOSTNAME>>],
    [ok |-> TRUE,  records |-> <<"other.example.net">>] }

\* Answers of dns.resolve4: a rejection, or the list of addresses.
AAnswers ==
  { [ok |-> FALSE, records |-> <<>>],
    [ok |-> TRUE,  records |-> <<>>],
    [ok |-> TRUE,  records |-> <<"192.0.2.1">>] }

\* String.prototype.trim for blanks.
RECURSIVE trimStart(_)
trimStart(s) ==
  IF s # <<>> /\ Head(s) = " " THEN trimStart(Tail(s)) ELSE s

RECURSIVE trimEnd(_)
trimEnd(s) ==
  IF s # <<>> /\ s[Len(s)] = " " THEN trimEnd(SubSeq(s, 1, Len(s) - 1)) ELSE s

trim(s) == trimEnd(trimStart(s))

\* validateSubdomain: true for a subdomain (valid, no message), else the
\* message.
validateSubdomain(domain) ==
  IF trim(domain) = <<>>
    THEN [valid |-> FALSE, message |-> "Domain is required"]
  ELSE IF Len(SplitOnDot(domain, <<>>)) =< 2
    THEN [valid |-> FALSE, message |-> "APEX domains are not supported"]
  ELSE [valid |-> TRUE, message |-> ""]

\* The validate function of the domain prompt of handleDnsCheck.
promptValidate(input) ==
  IF trim(input) = <<>>
    THEN [valid |-> FALSE, message |-> "Domain is required"]
  ELSE IF Len(SplitOnDot(input, <<>>)) =< 2
    THEN [valid |-> FALSE, message |-> "APEX domains are not supported"]
  ELSE [valid |-> TRUE, message |-> ""]

\* checkDnsCname succeeding on any CNAME record, whatever its target.
checkDnsCnameAnyTarget(domain, cname, a) ==
  IF ~validateSubdomain(domain).valid
    THEN [success |-> FALSE, error |-> "APEX domains are not supported"]
  ELSE IF cname.ok /\ Len(cname.records) > 0
    THEN [success |-> TRUE, error |-> ""]
  ELSE IF a.ok /\ Len(a.records) > 0
    THEN [success |-> FALSE, error |-> "Domain has A record but no CNAME"]
  ELSE [success |-> FALSE, error |-> "Domain does not resolve"]

\* checkDnsCname, given the answers of the two lookups: the APEX test, the
\* first CNAME record compared with CELLAR_HOSTNAME, the A record lookup when
\* there is no CNAME record, and the domain that does not resolve.
checkDnsCname(domain, cname, a) ==
  IF ~validateSubdomain(domain).valid
    THEN [success |-> FALSE, error |-> "APEX domains are not supported"]
  ELSE IF cname.ok /\ Len(cname.records) > 0
    THEN IF cname.records[1] = CELLAR_HOSTNAME
           THEN [success |-> TRUE, error |-> ""]
           ELSE [success |-> FALSE,
                 error |-> "CNAME does not point to correct Cellar endpoint"]
  ELSE IF a.ok /\ Len(a.records) > 0
    THEN [success |-> FALSE, error |-> "Domain has A record but no CNAME"]
  ELSE [success |-> FALSE, error |-> "Domain does not resolve"]

NoDomain == [cli |-> FALSE, name |-> <<>>]

\* Domains a deployment may be given.
DeployDomains == { <<"w", ".", "e", ".", "c">>, <<"e", ".", "c">>, <<"c">> }

\* promptForCredentials rejecting only a --domain of a single label.
isApexOneLabel(name) == Len(SplitOnDot(name, <<>>)) =< 1

\* promptForCredentials: the test of --domain for an APEX domain.
isApex(name) == Len(SplitOnDot(name, <<>>)) =< 2

NoDnsCheck ==
  [called |-> FALSE, domain |-> <<>>,
   cname |-> [ok |-> FALSE, records |-> <<>>],
   a |-> [ok |-> FALSE, records |-> <<>>],
   success |-> FALSE, error |-> ""]

(***************************************************************************)
(* State.                                                                  *)
(***************************************************************************)
VARIABLES
  command,        \* argv: the command of this run
  mainPc,         \* position of main
  exitCode,       \* -1 while the process runs, then its exit code
  workers,        \* parseInt of --workers
  folderPath,     \* config.folderPath
  bucketExists,   \* store: the bucket exists
  bucket,         \* store: keys of the objects in the bucket
  nokey,          \* store: objects listed without a key
  checkResult,    \* ensureBucketExists: outcome of its listing
  createResult,   \* createBucket: outcome of the create request
  manualShown,    \* showManualBucketInstructions was called
  clearPc,        \* position of clearBucket
  clearStart,     \* history: objects in the bucket when clearBucket was called
  objectCount,    \* clearBucket: objects.contents.length of the current page
  delPending,     \* delete calls in flight (keys)
  delTrue,        \* callbacks of the current page resolved to true
  delFailed,      \* a delete of the current page has rejected
  totalDeleted,   \* clearBucket: totalDeleted
  batchCount,     \* clearBucket: batchCount
  clearReport,    \* clearBucket: last summary line, with its count
  listCalls,      \* history: listing calls issued by clearBucket
  deleteCalls,    \* history: delete calls issued
  deleteOks,      \* history: delete calls that succeeded
  createCalls,    \* history: create requests issued
  upPc,           \* position of uploadFolder
  tree,           \* local disk: indices of LocalEntries present under the root
  files,          \* uploadFolder: files
  fileIndex,      \* uploadFolder: fileIndex
  wk,             \* uploadFolder: the workers (processFile calls)
  uploaded,       \* uploadFolder: uploaded
  failed,         \* uploadFolder: failed
  summary,        \* uploadFolder: final summary line
  putCalls,       \* history: put operations issued, per file index
  putOks,         \* history: file indices whose put succeeded
  putFails,       \* history: file indices whose put failed
  run,            \* which run of the command this is (1 or 2)
  firstBucket,    \* history: keys in the bucket at the end of the first run
  probe,          \* last evaluation of a pure function (PureSpec)
  dnsCheck,       \* check-dns: the domain, the resolver's answers, the result
  deployDomain    \* deployment: the domain (bucket name), and whether it came
                  \* with --domain or from the prompt

mainVars   == <<command, mainPc, exitCode, workers, folderPath>>
storeVars  == <<bucketExists, bucket, nokey>>
ensureVars == <<checkResult, createResult, manualShown, createCalls>>
clearVars  == <<clearPc, clearStart, objectCount, delPending, delTrue, delFailed, totalDeleted,
                batchCount, clearReport, listCalls, deleteCalls, deleteOks>>
uploadVars == <<upPc, tree, files, fileIndex, wk, uploaded, failed, summary,
                putCalls, putOks, putFails>>
runVars    == <<run, firstBucket>>
domainVars == <<dnsCheck, deployDomain>>
vars == <<mainVars, storeVars, ensureVars, clearVars, uploadVars, runVars, domainVars,
          probe>>

Workers == 1..MaxWorkers
NoWorker == [pc |-> "none", idx |-> 0]
NoSummary == [kind |-> "none", ok |-> 0, ko |-> 0]
NoReport == [kind |-> "none", total |-> 0]
NoProbe == [op |-> "none"]

Init ==
  /\ command \in Commands
  /\ mainPc = "Init"
  /\ exitCode = -1
  /\ workers = 0
  /\ folderPath = <<>>
  /\ bucketExists \in BOOLEAN
  /\ bucket \in (IF bucketExists THEN SUBSET OldKeys ELSE {{}})
  /\ nokey \in (IF bucketExists THEN 0..MaxKeyless ELSE {0})
  /\ checkResult = "none"
  /\ createResult = -1
  /\ manualShown = FALSE
  /\ createCalls = 0
  /\ clearPc = "idle"
  /\ clearStart = 0
  /\ objectCount = 0
  /\ delPending = {}
  /\ delTrue = 0
  /\ delFailed = FALSE
  /\ totalDeleted = 0
  /\ batchCount = 0
  /\ clearReport = NoReport
  /\ listCalls = 0
  /\ deleteCalls = 0
  /\ deleteOks = 0
  /\ upPc = "idle"
  /\ tree = {}
  /\ files = <<>>
  /\ fileIndex = 0
  /\ wk = [w \in Workers |-> NoWorker]
  /\ uploaded = 0
  /\ failed = 0
  /\ summary = NoSummary
  /\ putCalls = [i \in 1..MaxFiles |-> 0]
  /\ putOks = {}
  /\ putFails = {}
  /\ run = 1
  /\ firstBucket = {}
  /\ probe = NoProbe
  /\ dnsCheck = NoDnsCheck
  /\ deployDomain = NoDomain

\* main's catch block: "Deployment failed", process.exit(1); and the
\* process.exit(1) after ensureBucketExists returned false.
Abort ==
  /\ mainPc' = "Aborted"
  /\ exitCode' = 1

(***************************************************************************)
(* main (index.ts) up to the bucket check.                                 *)
(***************************************************************************)
\* main, args.help: showHelp and return.
MainHelp ==
  /\ UNCHANGED <<runVars, domainVars, probe>>
  /\ mainPc = "Init"
  /\ command = "help"
  /\ mainPc' = "Returned"
  /\ exitCode' = 0
  /\ UNCHANGED <<command, workers, folderPath>>
  /\ UNCHANGED <<storeVars, ensureVars, clearVars, uploadVars>>

\* main, command check-dns: handleDnsCheck.  A domain given with --domain is
\* checked as typed and an APEX one throws into main's catch; a domain asked
\* for at the prompt has passed the prompt's validation.  Then checkDnsCname
\* runs with the resolver's answers; a failed check exits with 1, a successful
\* one returns.
MainCheckDns ==
  /\ UNCHANGED <<runVars, probe, deployDomain>>
  /\ mainPc = "Init"
  /\ command = "check-dns"
  /\ \E cli \in BOOLEAN : \E domain \in Domains :
     \E cname \in CnameAnswers : \E a \in AAnswers :
       /\ cli => domain # <<>>
       /\ ~cli => promptValidate(domain).valid
       /\ IF cli /\ Len(SplitOnDot(domain, <<>>)) =< 2
            THEN /\ Abort
                 /\ dnsCheck' = [called |-> FALSE, domain |-> domain,
                                 cname |-> cname, a |-> a,
                                 success |-> FALSE, error |-> "thrown"]
            ELSE LET result == checkDnsCname(domain, cname, a) IN
                 /\ dnsCheck' = [called |-> TRUE, domain |-> domain,
                                 cname |-> cname, a |-> a,
                                 success |-> result.success,
                                 error |-> result.error]
                 /\ IF ~result.success
                      THEN mainPc' = "DnsFailed" /\ exitCode' = 1
                      ELSE mainPc' = "Returned" /\ exitCode' = 0
  /\ UNCHANGED <<command, workers, folderPath>>
  /\ UNCHANGED <<storeVars, ensureVars, clearVars, uploadVars>>

\* main going on to the deployment after handleDnsCheck too (no return after
\* it).
MainConfigureAnyCommand ==
  /\ UNCHANGED <<runVars, dnsCheck, probe>>
  /\ mainPc = "Init"
  /\ command \in {"deploy", "check-dns"}
  /\ \E cli \in BOOLEAN : \E name \in DeployDomains :
       /\ ~cli => promptValidate(name).valid
       /\ run = 2 => deployDomain = [cli |-> cli, name |-> name]
       /\ deployDomain' = [cli |-> cli, name |-> name]
       /\ IF cli /\ isApex(name)
            THEN /\ Abort
                 /\ UNCHANGED <<workers, folderPath>>
            ELSE /\ mainPc' = "BucketCheck"
                 /\ workers' \in (IF run = 1 THEN 0..MaxWorkers ELSE {workers})
                 /\ folderPath' \in (IF run = 1 THEN RootForms ELSE {folderPath})
                 /\ UNCHANGED exitCode
  /\ UNCHANGED command
  /\ UNCHANGED <<storeVars, ensureVars, clearVars, uploadVars>>

\* main, deployment: promptForCredentials (the domain comes with --domain, and
\* an APEX one throws, or from the prompt, which has validated it), parseInt
\* of --workers, createS3Client, and ensureBucketExists up to its listing call.
MainConfigure ==
  /\ UNCHANGED <<runVars, dnsCheck, probe>>
  /\ mainPc = "Init"
  /\ command = "deploy"
  /\ \E cli \in BOOLEAN : \E name \in DeployDomains :
       /\ ~cli => promptValidate(name).valid
       /\ run = 2 => deployDomain = [cli |-> cli, name |-> name]
       /\ deployDomain' = [cli |-> cli, name |-> name]
       /\ IF cli /\ isApex(name)
            THEN /\ Abort
                 /\ UNCHANGED <<workers, folderPath>>
            ELSE /\ mainPc' = "BucketCheck"
                 /\ workers' \in (IF run = 1 THEN 0..MaxWorkers ELSE {workers})
                 /\ folderPath' \in (IF run = 1 THEN RootForms ELSE {folderPath})
                 /\ UNCHANGED exitCode
  /\ UNCHANGED command
  /\ UNCHANGED <<storeVars, ensureVars, clearVars, uploadVars>>

(***************************************************************************)
(* ensureBucketExists and createBucket (s3-client.ts).                     *)
(***************************************************************************)
\* What the listing of ensureBucketExists may answer: a bucket that does not
\* exist gives NoSuchBucket; credentials and the network may fail any time.
ListOutcomes ==
  (IF bucketExists THEN {"ok"} ELSE {"NoSuchBucket"})
    \cup {"InvalidAccessKeyId", "SignatureDoesNotMatch", "Other"}

\* clearBucket is called and runs up to its first listing call.
ClearIsCalled ==
  /\ clearPc' = "list"
  /\ clearStart' = Cardinality(bucket) + nokey

\* ensureBucketExists taking every listing error but NoSuchBucket as success.
EnsureBucketExistsLenient ==
  /\ UNCHANGED <<runVars, domainVars, probe>>
  /\ mainPc = "BucketCheck"
  /\ \E outcome \in ListOutcomes :
       /\ checkResult' = outcome
       /\ CASE outcome = "NoSuchBucket" ->
                 /\ mainPc' = "CreateBucket"
                 /\ createCalls' = createCalls + 1
                 /\ UNCHANGED <<exitCode, clearPc, clearStart>>
            [] OTHER ->
                 /\ mainPc' = "Clear"
                 /\ ClearIsCalled
                 /\ UNCHANGED <<exitCode, createCalls>>
  /\ UNCHANGED <<command, workers, folderPath, createResult, manualShown>>
  /\ UNCHANGED <<storeVars, uploadVars>>
  /\ UNCHANGED <<objectCount, delPending, delTrue, delFailed, totalDeleted,
                 batchCount, clearReport, listCalls, deleteCalls, deleteOks>>

\* ensureBucketExists trying to create the bucket on the generic listing error
\* too.
EnsureBucketExistsCreatesOnAnyOther ==
  /\ UNCHANGED <<runVars, domainVars, probe>>
  /\ mainPc = "BucketCheck"
  /\ \E outcome \in ListOutcomes :
       /\ checkResult' = outcome
       /\ CASE outcome = "ok" ->
                 /\ mainPc' = "Clear"
                 /\ ClearIsCalled
                 /\ UNCHANGED <<exitCode, createCalls>>
            [] outcome \in {"NoSuchBucket", "Other"} ->
                 /\ mainPc' = "CreateBucket"
                 /\ createCalls' = createCalls + 1
                 /\ UNCHANGED <<exitCode, clearPc, clearStart>>
            [] OTHER ->
                 /\ Abort
                 /\ UNCHANGED <<createCalls, clearPc, clearStart>>
  /\ UNCHANGED <<command, workers, folderPath, createResult, manualShown>>
  /\ UNCHANGED <<storeVars, uploadVars>>
  /\ UNCHANGED <<objectCount, delPending, delTrue, delFailed, totalDeleted,
                 batchCount, clearReport, listCalls, deleteCalls, deleteOks>>

\* ensureBucketExists, the listing settles.  On success main goes on and calls
\* clearBucket, which runs up to its first listing call.
EnsureBucketExists ==
  /\ UNCHANGED <<runVars, domainVars, probe>>
  /\ mainPc = "BucketCheck"
  /\ \E outcome \in ListOutcomes :
       /\ checkResult' = outcome
       /\ CASE outcome = "ok" ->
                 /\ mainPc' = "Clear"
                 /\ ClearIsCalled
                 /\ UNCHANGED <<exitCode, createCalls>>
            [] outcome = "NoSuchBucket" ->
                 /\ mainPc' = "CreateBucket"
                 /\ createCalls' = createCalls + 1
                 /\ UNCHANGED <<exitCode, clearPc, clearStart>>
            [] OTHER ->
                 /\ Abort
                 /\ UNCHANGED <<createCalls, clearPc, clearStart>>
  /\ UNCHANGED <<command, workers, folderPath, createResult, manualShown>>
  /\ UNCHANGED <<storeVars, uploadVars>>
  /\ UNCHANGED <<objectCount, delPending, delTrue, delFailed, totalDeleted,
                 batchCount, clearReport, listCalls, deleteCalls, deleteOks>>

\* createBucket, the create request settles: a response with a status, or a
\* transport error (status 0 here).
CreateBucket ==
  /\ UNCHANGED <<runVars, domainVars, probe>>
  /\ mainPc = "CreateBucket"
  /\ \E status \in HttpStatuses \cup {0} :
       /\ createResult' = status
       /\ IF status # 0 /\ createSucceeded(status)
            THEN /\ mainPc' = "Clear"
                 /\ ClearIsCalled
                 /\ bucketExists' = TRUE
                 /\ UNCHANGED <<exitCode, manualShown>>
            ELSE /\ Abort
                 /\ manualShown' = TRUE
                 /\ UNCHANGED <<clearPc, clearStart, bucketExists>>
  /\ UNCHANGED <<command, workers, folderPath, checkResult, createCalls>>
  /\ UNCHANGED <<bucket, nokey>>
  /\ UNCHANGED uploadVars
  /\ UNCHANGED <<objectCount, delPending, delTrue, delFailed, totalDeleted,
                 batchCount, clearReport, listCalls, deleteCalls, deleteOks>>

(***************************************************************************)
(* clearBucket (s3-client.ts).                                             *)
(***************************************************************************)
\* client.list({maxKeys}): the pages the store may return, up to maxKeys of the
\* remaining entries in store-defined order; a page is the keys of its entries
\* that have one and the number of those that have none.
Pages(maxKeys) ==
  { pg \in [keys : SUBSET bucket, keyless : 0..nokey] :
      Cardinality(pg.keys) + pg.keyless = Min(maxKeys, Cardinality(bucket) + nokey) }

\* One more call or batch on a history counter.
Counted(n) == IF n < MaxListCalls THEN n + 1 ELSE n

\* clearBucket returns: main calls uploadFolder, which runs up to the await of
\* getAllFiles.
ClearReturns ==
  /\ clearPc' = "returned"
  /\ mainPc' = "Upload"
  /\ upPc' = "scan"

\* clearBucket's catch block rethrows into main's.
ClearThrows ==
  /\ clearPc' = "thrown"
  /\ clearReport' = [kind |-> "failed", total |-> totalDeleted]
  /\ Abort

\* The loop stopping after a full page too.
lastBatchInclusive(count) == count =< BATCH_DELETE_SIZE

\* The loop stopping after its first batch whatever its size.
lastBatchAlways(count) == TRUE

\* The loop never stopping after a batch: only an empty page ends it.
lastBatchNever(count) == FALSE

\* The condition under which the loop stops after a batch.
lastBatch(count) == count < BATCH_DELETE_SIZE

\* clearBucket swallowing the failure of the listing call: main goes on to
\* uploadFolder.
ClearListFailsSwallowed ==
  /\ UNCHANGED <<runVars, domainVars, probe>>
  /\ mainPc = "Clear"
  /\ clearPc = "list"
  /\ listCalls' = Counted(listCalls)
  /\ clearPc' = "thrown"
  /\ clearReport' = [kind |-> "failed", total |-> totalDeleted]
  /\ mainPc' = "Upload"
  /\ upPc' = "scan"
  /\ UNCHANGED <<command, exitCode, workers, folderPath>>
  /\ UNCHANGED <<storeVars, ensureVars>>
  /\ UNCHANGED <<tree, files, fileIndex, wk, uploaded, failed, summary,
                 putCalls, putOks, putFails>>
  /\ UNCHANGED <<clearStart, objectCount, delPending, delTrue, delFailed, totalDeleted,
                 batchCount, deleteCalls, deleteOks>>

\* The listing call of the loop fails.
ClearListFails ==
  /\ UNCHANGED <<runVars, domainVars, probe>>
  /\ mainPc = "Clear"
  /\ clearPc = "list"
  /\ listCalls' = Counted(listCalls)
  /\ ClearThrows
  /\ UNCHANGED <<command, workers, folderPath>>
  /\ UNCHANGED <<storeVars, ensureVars, uploadVars>>
  /\ UNCHANGED <<clearStart, objectCount, delPending, delTrue, delFailed, totalDeleted,
                 batchCount, deleteCalls, deleteOks>>

\* The report on an empty page always naming a number of deleted objects.
emptyPageReportAlwaysDeleted(total) == [kind |-> "all deleted", total |-> total]

\* The report of clearBucket when a listing returns an empty page.
emptyPageReport(total) ==
  IF total = 0
    THEN [kind |-> "already empty", total |-> 0]
    ELSE [kind |-> "all deleted", total |-> total]

\* The report after a short page telling that objects may remain.
shortPageReportMayRemain(total) == [kind |-> "some deleted", total |-> total]

\* The report of clearBucket when a page shorter than BATCH_DELETE_SIZE has
\* been deleted.
shortPageReport(total) == [kind |-> "all deleted", total |-> total]

\* The batch count taken from the size of the page.
deletedInThisBatchByPage(trueCount, count) == count

\* results.filter(Boolean).length: the callbacks of the page that resolved to
\* true, out of a page of count entries.
deletedInThisBatch(trueCount, count) == trueCount

\* The listing call of the loop returns a page.  An empty page ends the loop;
\* otherwise one delete is issued for every entry with a key, and the callbacks
\* of the entries without a key resolve to false.
ClearList ==
  /\ UNCHANGED <<runVars, domainVars, probe>>
  /\ mainPc = "Clear"
  /\ clearPc = "list"
  /\ listCalls' = Counted(listCalls)
  /\ \E pg \in Pages(BATCH_DELETE_SIZE) :
       LET n == Cardinality(pg.keys) + pg.keyless IN
       IF n = 0
         THEN /\ clearReport' = emptyPageReport(totalDeleted)
              /\ ClearReturns
              /\ UNCHANGED <<objectCount, batchCount, delPending, delTrue,
                             delFailed, deleteCalls>>
         ELSE /\ objectCount' = n
              /\ batchCount' = Counted(batchCount)
              /\ delPending' = pg.keys
              /\ deleteCalls' = deleteCalls + Cardinality(pg.keys)
              /\ delTrue' = 0
              /\ delFailed' = FALSE
              /\ clearPc' = "await"
              /\ UNCHANGED <<clearReport, mainPc, upPc>>
  /\ UNCHANGED <<command, exitCode, workers, folderPath>>
  /\ UNCHANGED <<storeVars, ensureVars>>
  /\ UNCHANGED <<clearStart, totalDeleted, deleteOks>>
  /\ UNCHANGED <<tree, files, fileIndex, wk, uploaded, failed, summary,
                 putCalls, putOks, putFails>>

\* client.list({maxKeys}) of a store that returns fewer entries than maxKeys
\* although more remain, as the listing contract allows (a truncated page).
ShortPages(maxKeys) ==
  { pg \in [keys : SUBSET bucket, keyless : 0..nokey] :
      /\ Cardinality(pg.keys) + pg.keyless > 0
      /\ Cardinality(pg.keys) + pg.keyless < Min(maxKeys, Cardinality(bucket) + nokey) }

\* The listing call of the loop returns a short page that is not the last one
\* of the bucket: one delete is issued for every entry of the page with a key.
ClearListShortPage ==
  /\ UNCHANGED <<runVars, domainVars, probe>>
  /\ mainPc = "Clear"
  /\ clearPc = "list"
  /\ listCalls' = Counted(listCalls)
  /\ \E pg \in ShortPages(BATCH_DELETE_SIZE) :
       /\ objectCount' = Cardinality(pg.keys) + pg.keyless
       /\ batchCount' = Counted(batchCount)
       /\ delPending' = pg.keys
       /\ deleteCalls' = deleteCalls + Cardinality(pg.keys)
       /\ delTrue' = 0
       /\ delFailed' = FALSE
       /\ clearPc' = "await"
  /\ UNCHANGED <<clearReport, mainPc, upPc>>
  /\ UNCHANGED <<command, exitCode, workers, folderPath>>
  /\ UNCHANGED <<storeVars, ensureVars>>
  /\ UNCHANGED <<clearStart, totalDeleted, deleteOks>>
  /\ UNCHANGED <<tree, files, fileIndex, wk, uploaded, failed, summary,
                 putCalls, putOks, putFails>>

\* One delete call succeeds: the store has removed the object and the callback
\* resolves to true.
DeleteOk ==
  /\ UNCHANGED <<runVars, domainVars, probe>>
  /\ \E k \in delPending :
       /\ delPending' = delPending \ {k}
       /\ bucket' = bucket \ {k}
  /\ delTrue' = delTrue + 1
  /\ deleteOks' = deleteOks + 1
  /\ UNCHANGED <<mainVars, ensureVars, uploadVars>>
  /\ UNCHANGED <<bucketExists, nokey>>
  /\ UNCHANGED <<clearPc, clearStart, objectCount, delFailed, totalDeleted, batchCount,
                 clearReport, listCalls, deleteCalls>>

\* One delete call fails: its callback rejects.  The first rejection rejects
\* Promise.all, and the await in clearBucket throws while the other deletes of
\* the page are still in flight.
DeleteFails ==
  /\ UNCHANGED <<runVars, domainVars, probe>>
  /\ \E k \in delPending :
       delPending' = delPending \ {k}
  /\ delFailed' = TRUE
  /\ IF clearPc = "await"
       THEN /\ ClearThrows
            /\ UNCHANGED <<command, workers, folderPath>>
       ELSE UNCHANGED <<mainVars, clearPc, clearReport>>
  /\ UNCHANGED <<storeVars, ensureVars, uploadVars>>
  /\ UNCHANGED <<clearStart, objectCount, delTrue, totalDeleted, batchCount, listCalls,
                 deleteCalls, deleteOks>>

\* The batch counted as soon as clearBucket is at its await, without waiting
\* for every callback of the page to settle.
ClearBatchDoneEarly ==
  /\ UNCHANGED <<runVars, domainVars, probe>>
  /\ mainPc = "Clear"
  /\ clearPc = "await"
  /\ ~delFailed
  /\ totalDeleted' = totalDeleted + deletedInThisBatch(delTrue, objectCount)
  /\ IF lastBatch(objectCount)
       THEN /\ clearReport' = shortPageReport(totalDeleted')
            /\ ClearReturns
       ELSE /\ clearPc' = "list"
            /\ UNCHANGED <<clearReport, mainPc, upPc>>
  /\ UNCHANGED <<command, exitCode, workers, folderPath>>
  /\ UNCHANGED <<storeVars, ensureVars>>
  /\ UNCHANGED <<clearStart, objectCount, delPending, delTrue, delFailed, batchCount,
                 listCalls, deleteCalls, deleteOks>>
  /\ UNCHANGED <<tree, files, fileIndex, wk, uploaded, failed, summary,
                 putCalls, putOks, putFails>>

\* Every callback of the page has resolved: Promise.all resolves, the batch is
\* counted, and the loop stops on a short page or lists again.
ClearBatchDone ==
  /\ UNCHANGED <<runVars, domainVars, probe>>
  /\ mainPc = "Clear"
  /\ clearPc = "await"
  /\ delPending = {}
  /\ ~delFailed
  /\ totalDeleted' = totalDeleted + deletedInThisBatch(delTrue, objectCount)
  /\ IF lastBatch(objectCount)
       THEN /\ clearReport' = shortPageReport(totalDeleted')
            /\ ClearReturns
       ELSE /\ clearPc' = "list"
            /\ UNCHANGED <<clearReport, mainPc, upPc>>
  /\ UNCHANGED <<command, exitCode, workers, folderPath>>
  /\ UNCHANGED <<storeVars, ensureVars>>
  /\ UNCHANGED <<clearStart, objectCount, delPending, delTrue, delFailed, batchCount,
                 listCalls, deleteCalls, deleteOks>>
  /\ UNCHANGED <<tree, files, fileIndex, wk, uploaded, failed, summary,
                 putCalls, putOks, putFails>>

(***************************************************************************)
(* uploadFolder (file-utils.ts).                                           *)
(***************************************************************************)
\* processFile claiming with a pre-increment (++fileIndex): index 0 is never
\* claimed and the last claim reads past the end of the list.
RECURSIVE processFilePreIncrement(_, _)
processFilePreIncrement(fs, fi) ==
  IF fi < Len(fs)
    THEN LET currentIndex == fi + 1 IN
         IF currentIndex + 1 > Len(fs) \/ fs[currentIndex + 1] = <<>>
           THEN processFilePreIncrement(fs, fi + 1)
           ELSE [pc |-> "put", idx |-> currentIndex, next |-> fi + 1]
    ELSE [pc |-> "exit", idx |-> 0, next |-> fi]

\* processFile reading the cursor without advancing it at the claim.
RECURSIVE processFileLateIncrement(_, _)
processFileLateIncrement(fs, fi) ==
  IF fi < Len(fs)
    THEN LET currentIndex == fi IN
         IF fs[currentIndex + 1] = <<>>
           THEN processFileLateIncrement(fs, fi + 1)
           ELSE [pc |-> "put", idx |-> currentIndex, next |-> fi]
    ELSE [pc |-> "exit", idx |-> 0, next |-> fi]

\* processFile from the loop test to its next await: the worker claims indices
\* until one holds a path, and issues the put for it; it exits when the cursor
\* has reached the end of the list.
RECURSIVE processFile(_, _)
processFile(fs, fi) ==
  IF fi < Len(fs)
    THEN LET currentIndex == fi IN
         IF fs[currentIndex + 1] = <<>>
           THEN processFile(fs, fi + 1)
           ELSE [pc |-> "put", idx |-> currentIndex, next |-> fi + 1]
    ELSE [pc |-> "exit", idx |-> 0, next |-> fi]

\* A pool whose workers upload one file each: a worker that comes back from a
\* put returns instead of going round the loop.
StepWorkerOneShot(st, fs, w) ==
  LET r == IF st.wk[w].pc = "put"
             THEN [pc |-> "exit", idx |-> 0, next |-> st.fileIndex]
             ELSE processFile(fs, st.fileIndex) IN
  [ wk        |-> [st.wk EXCEPT ![w] = [pc |-> r.pc, idx |-> r.idx]],
    fileIndex |-> r.next,
    putCalls  |-> IF r.pc = "put"
                    THEN [st.putCalls EXCEPT ![r.idx + 1] = @ + 1]
                    ELSE st.putCalls ]

\* The pool after worker w has run processFile from the loop test.
StepWorker(st, fs, w) ==
  LET r == processFile(fs, st.fileIndex) IN
  [ wk        |-> [st.wk EXCEPT ![w] = [pc |-> r.pc, idx |-> r.idx]],
    fileIndex |-> r.next,
    putCalls  |-> IF r.pc = "put"
                    THEN [st.putCalls EXCEPT ![r.idx + 1] = @ + 1]
                    ELSE st.putCalls ]

\* The launch loop running once more (i <= workers).
launchCountOffByOne(n) == Min(n + 1, MaxWorkers)

\* Number of processFile calls the launch loop makes.
launchCount(n) == n

\* The launch loop: processFile is called once per worker, and each call runs
\* up to its first await before the next one starts.
RECURSIVE launch(_, _, _, _)
launch(i, n, fs, st) ==
  IF i > launchCount(n) THEN st
  ELSE launch(i + 1, n, fs, StepWorker(st, fs, i))

Pool == [wk |-> wk, fileIndex |-> fileIndex, putCalls |-> putCalls]

SetPool(st) ==
  /\ wk' = st.wk
  /\ fileIndex' = st.fileIndex
  /\ putCalls' = st.putCalls

\* The summary reporting the number of files as the number of successes.
finalSummaryCountsAll(up, ko, total) ==
  IF ko > 0
    THEN [kind |-> "completed with errors", ok |-> total, ko |-> ko]
    ELSE [kind |-> "complete", ok |-> total, ko |-> 0]

\* The summary never reporting the failures.
finalSummaryNoErrors(up, ko, total) ==
  [kind |-> "complete", ok |-> total, ko |-> 0]

\* The final summary of uploadFolder.
finalSummary(up, ko, total) ==
  IF ko > 0
    THEN [kind |-> "completed with errors", ok |-> up, ko |-> ko]
    ELSE [kind |-> "complete", ok |-> total, ko |-> 0]

\* uploadFolder swallowing the failure of getAllFiles and returning normally.
UploadScanFailsSwallowed ==
  /\ UNCHANGED <<runVars, domainVars, probe>>
  /\ mainPc = "Upload"
  /\ upPc = "scan"
  /\ upPc' = "thrown"
  /\ mainPc' = "Done"
  /\ exitCode' = 0
  /\ UNCHANGED <<command, workers, folderPath>>
  /\ UNCHANGED <<storeVars, ensureVars, clearVars>>
  /\ UNCHANGED <<tree, files, fileIndex, wk, uploaded, failed, summary,
                 putCalls, putOks, putFails>>

\* getAllFiles rejects: uploadFolder's catch block rethrows into main's.
UploadScanFails ==
  /\ UNCHANGED <<runVars, domainVars, probe>>
  /\ mainPc = "Upload"
  /\ upPc = "scan"
  /\ upPc' = "thrown"
  /\ Abort
  /\ UNCHANGED <<command, workers, folderPath>>
  /\ UNCHANGED <<storeVars, ensureVars, clearVars>>
  /\ UNCHANGED <<tree, files, fileIndex, wk, uploaded, failed, summary,
                 putCalls, putOks, putFails>>

\* getAllFiles resolves: the counters are set up and the workers are launched.
UploadScan ==
  /\ UNCHANGED <<runVars, domainVars, probe>>
  /\ mainPc = "Upload"
  /\ upPc = "scan"
  /\ \E chosen \in (IF run = 1 THEN SUBSET LocalChoices ELSE {tree}) :
       LET fs == getAllFiles(folderPath, chosen, 1) IN
       /\ tree' = chosen
       /\ files' = fs
       /\ SetPool(launch(1, workers, fs,
                         [wk |-> wk, fileIndex |-> 0, putCalls |-> putCalls]))
  /\ uploaded' = 0
  /\ failed' = 0
  /\ upPc' = "running"
  /\ UNCHANGED <<mainVars, storeVars, ensureVars, clearVars>>
  /\ UNCHANGED <<summary, putOks, putFails>>

\* updateProgress losing its increment when another put is in flight (a
\* counter updated from a stale read).
PutOkStaleCounter ==
  /\ UNCHANGED <<runVars, domainVars, probe>>
  /\ upPc = "running"
  /\ \E w \in Workers :
       /\ wk[w].pc = "put"
       /\ bucket' = bucket \cup {uploadKey(files[wk[w].idx + 1], folderPath)}
       /\ putOks' = putOks \cup {wk[w].idx}
       /\ uploaded' = IF \E v \in Workers : v # w /\ wk[v].pc = "put"
                        THEN uploaded
                        ELSE uploaded + 1
       /\ SetPool(StepWorker(Pool, files, w))
  /\ UNCHANGED <<mainVars, ensureVars, clearVars>>
  /\ UNCHANGED <<bucketExists, nokey>>
  /\ UNCHANGED <<upPc, tree, files, failed, summary, putFails>>

\* The put of worker w succeeds: the object is in the bucket under the key of
\* the file, updateProgress counts it, and the worker goes round its loop.
PutOk ==
  /\ UNCHANGED <<runVars, domainVars, probe>>
  /\ upPc = "running"
  /\ \E w \in Workers :
       /\ wk[w].pc = "put"
       /\ bucket' = bucket \cup {uploadKey(files[wk[w].idx + 1], folderPath)}
       /\ putOks' = putOks \cup {wk[w].idx}
       /\ SetPool(StepWorker(Pool, files, w))
  /\ uploaded' = uploaded + 1
  /\ UNCHANGED <<mainVars, ensureVars, clearVars>>
  /\ UNCHANGED <<bucketExists, nokey>>
  /\ UNCHANGED <<upPc, tree, files, failed, summary, putFails>>

\* A failed put ending the worker that hit it (the try around the loop instead
\* of inside it).
PutFailsEndsWorker ==
  /\ UNCHANGED <<runVars, domainVars, probe>>
  /\ upPc = "running"
  /\ \E w \in Workers :
       /\ wk[w].pc = "put"
       /\ putFails' = putFails \cup {wk[w].idx}
       /\ wk' = [wk EXCEPT ![w] = [pc |-> "exit", idx |-> 0]]
  /\ failed' = failed + 1
  /\ UNCHANGED <<mainVars, storeVars, ensureVars, clearVars>>
  /\ UNCHANGED <<upPc, tree, files, uploaded, summary, putOks, fileIndex, putCalls>>

\* A failed put propagating out of uploadFolder (no try in processFile).
PutFailsRethrows ==
  /\ UNCHANGED <<runVars, domainVars, probe>>
  /\ upPc = "running"
  /\ \E w \in Workers :
       /\ wk[w].pc = "put"
       /\ putFails' = putFails \cup {wk[w].idx}
       /\ wk' = [wk EXCEPT ![w] = [pc |-> "exit", idx |-> 0]]
  /\ upPc' = "thrown"
  /\ Abort
  /\ UNCHANGED <<command, workers, folderPath>>
  /\ UNCHANGED <<storeVars, ensureVars, clearVars>>
  /\ UNCHANGED <<tree, files, uploaded, failed, summary, putOks, fileIndex, putCalls>>

\* A failed put caught without being counted.
PutFailsUncounted ==
  /\ UNCHANGED <<runVars, domainVars, probe>>
  /\ upPc = "running"
  /\ \E w \in Workers :
       /\ wk[w].pc = "put"
       /\ putFails' = putFails \cup {wk[w].idx}
       /\ SetPool(StepWorker(Pool, files, w))
  /\ UNCHANGED <<mainVars, storeVars, ensureVars, clearVars>>
  /\ UNCHANGED <<upPc, tree, files, uploaded, failed, summary, putOks>>

\* A failed put cancelling the pool: the puts in flight are abandoned and every
\* worker returns.
PutFailsCancelsPool ==
  /\ UNCHANGED <<runVars, domainVars, probe>>
  /\ upPc = "running"
  /\ \E w \in Workers :
       /\ wk[w].pc = "put"
       /\ putFails' = putFails \cup {wk[w].idx}
       /\ SetPool([Pool EXCEPT !.wk =
                    [v \in Workers |->
                       IF wk[v].pc = "put" THEN [pc |-> "exit", idx |-> 0]
                                           ELSE wk[v]]])
  /\ failed' = failed + 1
  /\ UNCHANGED <<mainVars, storeVars, ensureVars, clearVars>>
  /\ UNCHANGED <<upPc, tree, files, uploaded, summary, putOks>>

\* The put of worker w fails: the catch block counts it, and the worker goes
\* round its loop.
PutFails ==
  /\ UNCHANGED <<runVars, domainVars, probe>>
  /\ upPc = "running"
  /\ \E w \in Workers :
       /\ wk[w].pc = "put"
       /\ putFails' = putFails \cup {wk[w].idx}
       /\ SetPool(StepWorker(Pool, files, w))
  /\ failed' = failed + 1
  /\ UNCHANGED <<mainVars, storeVars, ensureVars, clearVars>>
  /\ UNCHANGED <<upPc, tree, files, uploaded, summary, putOks>>

\* The end of uploadFolder waiting for a processFile call of every worker of
\* the largest pool, launched or not.
UploadFinishWaitsForAll ==
  /\ UNCHANGED <<runVars, domainVars, probe>>
  /\ mainPc = "Upload"
  /\ upPc = "running"
  /\ \A w \in Workers : wk[w].pc = "exit"
  /\ summary' = finalSummary(uploaded, failed, Len(files))
  /\ upPc' = "returned"
  /\ mainPc' = "Done"
  /\ exitCode' = 0
  /\ UNCHANGED <<command, workers, folderPath>>
  /\ UNCHANGED <<storeVars, ensureVars, clearVars>>
  /\ UNCHANGED <<tree, files, fileIndex, wk, uploaded, failed, putCalls,
                 putOks, putFails>>

\* Every processFile call has returned: Promise.all resolves, the summary is
\* printed, uploadFolder returns and main reports the deployment as completed.
UploadFinish ==
  /\ UNCHANGED <<runVars, domainVars, probe>>
  /\ mainPc = "Upload"
  /\ upPc = "running"
  /\ \A w \in Workers : wk[w].pc \in {"none", "exit"}
  /\ summary' = finalSummary(uploaded, failed, Len(files))
  /\ upPc' = "returned"
  /\ mainPc' = "Done"
  /\ exitCode' = 0
  /\ UNCHANGED <<command, workers, folderPath>>
  /\ UNCHANGED <<storeVars, ensureVars, clearVars>>
  /\ UNCHANGED <<tree, files, fileIndex, wk, uploaded, failed, putCalls,
                 putOks, putFails>>

(***************************************************************************)
(* The command run a second time.                                          *)
(***************************************************************************)
\* After a deployment in which every operation succeeded, the same command
\* line is run again on the unchanged local tree: a new process starts main
\* against the bucket as the first run left it.
Rerun ==
  /\ mainPc = "Done"
  /\ run = 1
  /\ putFails = {}
  /\ run' = 2
  /\ firstBucket' = bucket
  /\ mainPc' = "Init"
  /\ exitCode' = -1
  /\ checkResult' = "none"
  /\ createResult' = -1
  /\ manualShown' = FALSE
  /\ createCalls' = 0
  /\ clearPc' = "idle"
  /\ clearStart' = 0
  /\ objectCount' = 0
  /\ delPending' = {}
  /\ delTrue' = 0
  /\ delFailed' = FALSE
  /\ totalDeleted' = 0
  /\ batchCount' = 0
  /\ clearReport' = NoReport
  /\ listCalls' = 0
  /\ deleteCalls' = 0
  /\ deleteOks' = 0
  /\ upPc' = "idle"
  /\ files' = <<>>
  /\ fileIndex' = 0
  /\ wk' = [w \in Workers |-> NoWorker]
  /\ uploaded' = 0
  /\ failed' = 0
  /\ summary' = NoSummary
  /\ putCalls' = [i \in 1..MaxFiles |-> 0]
  /\ putOks' = {}
  /\ putFails' = {}
  /\ UNCHANGED <<command, workers, folderPath, tree, probe, domainVars>>
  /\ UNCHANGED storeVars

(***************************************************************************)
(* The pure functions evaluated on their own.                              *)
(***************************************************************************)
PureInit ==
  /\ Init
  /\ command = "help"
  /\ ~bucketExists
  /\ bucket = {}
  /\ nokey = 0

ProgramVars == <<mainVars, storeVars, ensureVars, clearVars, uploadVars, runVars,
                 domainVars>>

\* uploadFile's key for one file found by getAllFiles under a root.
ProbeKey ==
  /\ \E host \in HostSeps : \E root \in RootFormsOn(host) :
       \E i \in 1..Len(LocalEntries) :
         probe' = [op |-> "key", host |-> host, root |-> root,
                   entries |-> LocalEntries[i],
                   key |-> uploadKey(FullPathOn(host, root, LocalEntries[i]), root)]
  /\ UNCHANGED ProgramVars

\* uploadFile's content type for one file.
ProbeContentType ==
  /\ \E fileType \in FileTypes : \E path \in PathSamples :
       probe' = [op |-> "type", fileType |-> fileType, path |-> path,
                 type |-> uploadType(fileType, path)]
  /\ UNCHANGED ProgramVars

\* One rate computation, ms milliseconds after the start timestamp.
ProbeStats ==
  /\ \E site \in RateSites : \E count \in 0..MaxCount : \E ms \in 0..MaxElapsedMs :
       probe' = [op |-> "stats", site |-> site, count |-> count,
                 divisor |-> ms,
                 rate |-> IF site = "calculateStats"
                            THEN calculateStats(ms, count).rate
                            ELSE rate(count, ms)]
  /\ UNCHANGED ProgramVars

PureNext ==
  \/ ProbeKey
  \/ ProbeContentType
  \/ ProbeStats

PureSpec == PureInit /\ [][PureNext]_vars

(***************************************************************************)
(* The program.                                                            *)
(***************************************************************************)
Next ==
  \/ MainHelp
  \/ MainCheckDns
  \/ MainConfigure
  \/ EnsureBucketExists
  \/ CreateBucket
  \/ ClearListFails
  \/ ClearList
  \/ DeleteOk
  \/ DeleteFails
  \/ ClearBatchDone
  \/ UploadScanFails
  \/ UploadScan
  \/ PutOk
  \/ PutFails
  \/ UploadFinish
  \/ Rerun

Spec == Init /\ [][Next]_vars

\* The calls the code awaits settle: every put in flight succeeds or fails, and
\* the continuation after Promise.all runs.
LiveSpec ==
  /\ Spec
  /\ WF_vars(PutOk \/ PutFails)
  /\ WF_vars(UploadFinish)

\* Every list and delete call of clearBucket eventually settles, and the
\* continuation after Promise.all eventually runs.
ClearLiveSpec ==
  /\ Spec
  /\ WF_vars(ClearList \/ ClearListFails)
  /\ WF_vars(DeleteOk \/ DeleteFails)
  /\ WF_vars(ClearBatchDone)

\* main from its start to the end of clearBucket, against a store whose
\* listings may be truncated.
ShortPageNext ==
  \/ MainConfigure
  \/ EnsureBucketExists
  \/ CreateBucket
  \/ ClearListFails
  \/ ClearList
  \/ ClearListShortPage
  \/ DeleteOk
  \/ DeleteFails
  \/ ClearBatchDone

ShortPageSpec == Init /\ [][ShortPageNext]_vars

(***************************************************************************)
(* The 0.1.0 single-file versions of clearBucket and uploadFolder, called  *)
(* by the same main against the same store.                                *)
(***************************************************************************)
\* 0.1.0 clearBucket: the listing call of the loop fails.
ClearListFails010 ==
  /\ UNCHANGED <<runVars, domainVars, probe>>
  /\ mainPc = "Clear"
  /\ clearPc = "list"
  /\ listCalls' = Counted(listCalls)
  /\ ClearThrows
  /\ UNCHANGED <<command, workers, folderPath>>
  /\ UNCHANGED <<storeVars, ensureVars, uploadVars>>
  /\ UNCHANGED <<clearStart, objectCount, delPending, delTrue, delFailed, totalDeleted,
                 batchCount, deleteCalls, deleteOks>>

\* 0.1.0 clearBucket: the listing call returns a page.
ClearList010 ==
  /\ UNCHANGED <<runVars, domainVars, probe>>
  /\ mainPc = "Clear"
  /\ clearPc = "list"
  /\ listCalls' = Counted(listCalls)
  /\ \E pg \in Pages(BATCH_DELETE_SIZE) :
       IF Cardinality(pg.keys) + pg.keyless = 0
         THEN /\ IF totalDeleted = 0
                   THEN clearReport' = [kind |-> "already empty", total |-> 0]
                   ELSE clearReport' = [kind |-> "all deleted", total |-> totalDeleted]
              /\ ClearReturns
              /\ UNCHANGED <<objectCount, batchCount, delPending, delTrue,
                             delFailed, deleteCalls>>
         ELSE /\ objectCount' = Cardinality(pg.keys) + pg.keyless
              /\ batchCount' = Counted(batchCount)
              /\ delPending' = pg.keys
              /\ deleteCalls' = deleteCalls + Cardinality(pg.keys)
              /\ delTrue' = 0
              /\ delFailed' = FALSE
              /\ clearPc' = "await"
              /\ UNCHANGED <<clearReport, mainPc, upPc>>
  /\ UNCHANGED <<command, exitCode, workers, folderPath>>
  /\ UNCHANGED <<storeVars, ensureVars>>
  /\ UNCHANGED <<clearStart, totalDeleted, deleteOks>>
  /\ UNCHANGED <<tree, files, fileIndex, wk, uploaded, failed, summary,
                 putCalls, putOks, putFails>>

\* 0.1.0 clearBucket: one delete call succeeds.
DeleteOk010 ==
  /\ UNCHANGED <<runVars, domainVars, probe>>
  /\ \E k \in delPending :
       /\ delPending' = delPending \ {k}
       /\ bucket' = bucket \ {k}
  /\ delTrue' = delTrue + 1
  /\ deleteOks' = deleteOks + 1
  /\ UNCHANGED <<mainVars, ensureVars, uploadVars>>
  /\ UNCHANGED <<bucketExists, nokey>>
  /\ UNCHANGED <<clearPc, clearStart, objectCount, delFailed, totalDeleted, batchCount,
                 clearReport, listCalls, deleteCalls>>

\* 0.1.0 clearBucket: one delete call fails, and the first failure of a page
\* makes the await of Promise.all throw.
DeleteFails010 ==
  /\ UNCHANGED <<runVars, domainVars, probe>>
  /\ \E k \in delPending :
       delPending' = delPending \ {k}
  /\ delFailed' = TRUE
  /\ IF clearPc = "await"
       THEN /\ ClearThrows
            /\ UNCHANGED <<command, workers, folderPath>>
       ELSE UNCHANGED <<mainVars, clearPc, clearReport>>
  /\ UNCHANGED <<storeVars, ensureVars, uploadVars>>
  /\ UNCHANGED <<clearStart, objectCount, delTrue, totalDeleted, batchCount, listCalls,
                 deleteCalls, deleteOks>>

\* 0.1.0 clearBucket: Promise.all resolves, the trues are counted, and a page
\* shorter than BATCH_DELETE_SIZE ends the loop.
ClearBatchDone010 ==
  /\ UNCHANGED <<runVars, domainVars, probe>>
  /\ mainPc = "Clear"
  /\ clearPc = "await"
  /\ delPending = {}
  /\ ~delFailed
  /\ totalDeleted' = totalDeleted + delTrue
  /\ IF objectCount < BATCH_DELETE_SIZE
       THEN /\ clearReport' = [kind |-> "all deleted", total |-> totalDeleted + delTrue]
            /\ ClearReturns
       ELSE /\ clearPc' = "list"
            /\ UNCHANGED <<clearReport, mainPc, upPc>>
  /\ UNCHANGED <<command, exitCode, workers, folderPath>>
  /\ UNCHANGED <<storeVars, ensureVars>>
  /\ UNCHANGED <<clearStart, objectCount, delPending, delTrue, delFailed, batchCount,
                 listCalls, deleteCalls, deleteOks>>
  /\ UNCHANGED <<tree, files, fileIndex, wk, uploaded, failed, summary,
                 putCalls, putOks, putFails>>

\* 0.1.0 processFile from the loop test to its next await.
RECURSIVE processFile010(_, _)
processFile010(fs, fi) ==
  IF fi < Len(fs)
    THEN IF fs[fi + 1] = <<>>
           THEN processFile010(fs, fi + 1)
           ELSE [pc |-> "put", idx |-> fi, next |-> fi + 1]
    ELSE [pc |-> "exit", idx |-> 0, next |-> fi]

\* The 0.1.0 pool after worker w has run processFile from the loop test.
StepWorker010(st, fs, w) ==
  LET r == processFile010(fs, st.fileIndex) IN
  [ wk        |-> [st.wk EXCEPT ![w] = [pc |-> r.pc, idx |-> r.idx]],
    fileIndex |-> r.next,
    putCalls  |-> IF r.pc = "put"
                    THEN [st.putCalls EXCEPT ![r.idx + 1] = @ + 1]
                    ELSE st.putCalls ]

\* The 0.1.0 launch loop: for (let i = 0; i < workers; i++).
RECURSIVE launch010(_, _, _, _)
launch010(i, n, fs, st) ==
  IF i > n THEN st
  ELSE launch010(i + 1, n, fs, StepWorker010(st, fs, i))

\* 0.1.0 uploadFolder: getAllFiles rejects.
UploadScanFails010 ==
  /\ UNCHANGED <<runVars, domainVars, probe>>
  /\ mainPc = "Upload"
  /\ upPc = "scan"
  /\ upPc' = "thrown"
  /\ Abort
  /\ UNCHANGED <<command, workers, folderPath>>
  /\ UNCHANGED <<storeVars, ensureVars, clearVars>>
  /\ UNCHANGED <<tree, files, fileIndex, wk, uploaded, failed, summary,
                 putCalls, putOks, putFails>>

\* 0.1.0 uploadFolder: getAllFiles resolves and the workers are launched.
UploadScan010 ==
  /\ UNCHANGED <<runVars, domainVars, probe>>
  /\ mainPc = "Upload"
  /\ upPc = "scan"
  /\ \E chosen \in (IF run = 1 THEN SUBSET LocalChoices ELSE {tree}) :
       LET fs == getAllFiles(folderPath, chosen, 1) IN
       /\ tree' = chosen
       /\ files' = fs
       /\ SetPool(launch010(1, workers, fs,
                            [wk |-> wk, fileIndex |-> 0, putCalls |-> putCalls]))
  /\ uploaded' = 0
  /\ failed' = 0
  /\ upPc' = "running"
  /\ UNCHANGED <<mainVars, storeVars, ensureVars, clearVars>>
  /\ UNCHANGED <<summary, putOks, putFails>>

\* 0.1.0 uploadFolder: the put of a worker succeeds.
PutOk010 ==
  /\ UNCHANGED <<runVars, domainVars, probe>>
  /\ upPc = "running"
  /\ \E w \in Workers :
       /\ wk[w].pc = "put"
       /\ bucket' = bucket \cup {uploadKey(files[wk[w].idx + 1], folderPath)}
       /\ putOks' = putOks \cup {wk[w].idx}
       /\ SetPool(StepWorker010(Pool, files, w))
  /\ uploaded' = uploaded + 1
  /\ UNCHANGED <<mainVars, ensureVars, clearVars>>
  /\ UNCHANGED <<bucketExists, nokey>>
  /\ UNCHANGED <<upPc, tree, files, failed, summary, putFails>>

\* 0.1.0 uploadFolder: the put of a worker fails and is counted.
PutFails010 ==
  /\ UNCHANGED <<runVars, domainVars, probe>>
  /\ upPc = "running"
  /\ \E w \in Workers :
       /\ wk[w].pc = "put"
       /\ putFails' = putFails \cup {wk[w].idx}
       /\ SetPool(StepWorker010(Pool, files, w))
  /\ failed' = failed + 1
  /\ UNCHANGED <<mainVars, storeVars, ensureVars, clearVars>>
  /\ UNCHANGED <<upPc, tree, files, uploaded, summary, putOks>>

\* 0.1.0 uploadFolder: Promise.all resolves and the summary is printed.
UploadFinish010 ==
  /\ UNCHANGED <<runVars, domainVars, probe>>
  /\ mainPc = "Upload"
  /\ upPc = "running"
  /\ \A w \in Workers : wk[w].pc \in {"none", "exit"}
  /\ IF failed > 0
       THEN summary' = [kind |-> "completed with errors", ok |-> uploaded, ko |-> failed]
       ELSE summary' = [kind |-> "complete", ok |-> Len(files), ko |-> 0]
  /\ upPc' = "returned"
  /\ mainPc' = "Done"
  /\ exitCode' = 0
  /\ UNCHANGED <<command, workers, folderPath>>
  /\ UNCHANGED <<storeVars, ensureVars, clearVars>>
  /\ UNCHANGED <<tree, files, fileIndex, wk, uploaded, failed, putCalls,
                 putOks, putFails>>

\* The steps of clearBucket and of uploadFolder, in 0.2.0 and in 0.1.0.
ClearBucketNext ==
  ClearListFails \/ ClearList \/ DeleteOk \/ DeleteFails \/ ClearBatchDone
ClearBucketNext010 ==
  ClearListFails010 \/ ClearList010 \/ DeleteOk010 \/ DeleteFails010
    \/ ClearBatchDone010
UploadFolderNext ==
  UploadScanFails \/ UploadScan \/ PutOk \/ PutFails \/ UploadFinish
UploadFolderNext010 ==
  UploadScanFails010 \/ UploadScan010 \/ PutOk010 \/ PutFails010
    \/ UploadFinish010

\* main running with either version of clearBucket and uploadFolder at every
\* step.
BothNext ==
  \/ Next
  \/ ClearListFails010
  \/ ClearList010
  \/ DeleteOk010
  \/ DeleteFails010
  \/ ClearBatchDone010
  \/ UploadScanFails010
  \/ UploadScan010
  \/ PutOk010
  \/ PutFails010
  \/ UploadFinish010

BothSpec == Init /\ [][BothNext]_vars

(***************************************************************************)
(* Derived notions used by the properties.                                 *)
(***************************************************************************)
InFlightPuts == { w \in Workers : wk[w].pc = "put" }
FileCount    == Len(files)
FileIndices  == 0..(FileCount - 1)
PutsIssued   == { i \in 1..MaxFiles : putCalls[i] > 0 }
\* The relative path of a local file, with forward slashes.
RelativeKey(entries) == JoinWithSlash(entries)
LocalKeys    == { RelativeKey(LocalEntries[i]) : i \in tree }
ClearJustReturned == clearPc = "returned" /\ upPc = "scan"
CreateFailed ==
  \/ createResult = 0
  \/ /\ createResult > 0
     /\ createResult \notin 200..299
     /\ createResult # 409
BadCredentials == checkResult \in {"InvalidAccessKeyId", "SignatureDoesNotMatch"}

(***************************************************************************)
(* Properties.                                                             *)
(***************************************************************************)

\* C1: after a run that reaches Done with every list, delete and put call
\* succeeding, the keys in the bucket are exactly the relative paths of the
\* local files, and nothing that was in the bucket before is left.
C1_BucketMirrorsLocalTree ==
  (mainPc = "Done" /\ putFails = {}) =>
     (bucket = LocalKeys /\ nokey = 0)

C3_DeleteFailureIsAbsorbed ==
  delFailed => (clearPc # "thrown" /\ mainPc # "Aborted")

\* C4: with at least one worker, uploadFolder issues exactly one put per file:
\* never two for a file, and none is missing when it finishes.
C4_OnePutPerFile ==
  /\ \A i \in 1..MaxFiles : putCalls[i] =< 1
  /\ \A i \in 1..MaxFiles : putCalls[i] > 0 => (i - 1) \in FileIndices
  /\ (upPc = "returned" /\ workers >= 1) =>
        \A i \in FileIndices : putCalls[i + 1] = 1

\* uploadFolder has finished with more files than workers and a failed put.
C4_Witness ==
  /\ upPc = "returned"
  /\ workers >= 1
  /\ FileCount > workers
  /\ putFails # {}
  /\ putOks # {}

\* C5: at every instant the number of puts in flight is at most workerCount.
C5_InFlightAtMostWorkers ==
  Cardinality(InFlightPuts) =< workers

\* Every worker has a put in flight while files are still unclaimed.
C5_Witness ==
  /\ workers >= 2
  /\ Cardinality(InFlightPuts) = workers
  /\ fileIndex < FileCount
\* The step in which the put of worker w fails.
C6_FailedPutStep ==
  \A w \in Workers :
    (wk[w].pc = "put" /\ wk[w].idx \notin putFails /\ wk[w].idx \in putFails') =>
       /\ failed' = failed + 1
       /\ uploaded' = uploaded
       /\ upPc' = "running"
       /\ mainPc' = "Upload"
       /\ IF fileIndex < FileCount
            THEN /\ wk'[w] = [pc |-> "put", idx |-> fileIndex]
                 /\ fileIndex' = fileIndex + 1
            ELSE /\ wk'[w].pc = "exit"
                 /\ fileIndex' = fileIndex
       /\ \A v \in Workers \ {w} : wk'[v] = wk[v]

\* C6: a failed put adds one to failed and nothing to uploaded, the worker that
\* hit it claims the next index (or exits when none is left), no other worker
\* is touched, and every file is attempted afterwards.
C6_FailedPutStopsNobody ==
  /\ [][C6_FailedPutStep]_vars
  /\ []((putFails # {}) => <>(\A i \in FileIndices : putCalls[i + 1] = 1))

\* A put failed, and a file claimed after that failure was uploaded.
C6_Witness ==
  /\ upPc = "returned"
  /\ 0 \in putFails
  /\ workers = 1
  /\ (FileCount - 1) \in putOks
  /\ FileCount >= 2

\* C7: the final summary is "completed with errors" with M-F successes and F
\* failures when F > 0 puts failed, and the full-success one with M files when
\* none failed.
C7_SummaryTellsOutcome ==
  upPc = "returned" =>
    LET F == Cardinality(putFails) IN
    IF F > 0
      THEN summary = [kind |-> "completed with errors", ok |-> FileCount - F, ko |-> F]
      ELSE summary = [kind |-> "complete", ok |-> FileCount, ko |-> 0]

\* A finished upload with both successes and failures.
C7_Witness ==
  /\ upPc = "returned"
  /\ putFails # {}
  /\ putOks # {}
  /\ summary.kind = "completed with errors"

\* C8: once the directory scan has succeeded, failed puts never abort the run:
\* uploadFolder does not throw, main does not exit with 1 and reaches Done.
C8_FailedPutsAreNotFatal ==
  /\ [](putFails # {} =>
          /\ upPc \in {"running", "returned"}
          /\ mainPc \in {"Upload", "Done"}
          /\ exitCode # 1)
  /\ [](upPc = "running" => <>(mainPc = "Done" /\ exitCode = 0))

\* Done after every put failed.
C8_Witness ==
  /\ mainPc = "Done"
  /\ FileCount >= 2
  /\ Cardinality(putFails) = FileCount

\* The moves of the orchestrator's state machine.
OrchestratorSteps ==
  { <<"Init", "BucketCheck">>, <<"BucketCheck", "CreateBucket">>,
    <<"BucketCheck", "Clear">>, <<"CreateBucket", "Clear">>,
    <<"Clear", "Upload">>, <<"Upload", "Done">> }
    \cup { <<from, "Aborted">> :
             from \in {"Init", "BucketCheck", "CreateBucket", "Clear", "Upload"} }

\* The bucket check has succeeded, or the creation after it has.
BucketReady ==
  \/ checkResult = "ok"
  \/ checkResult = "NoSuchBucket" /\ createResult > 0 /\ ~CreateFailed

\* C9: a deployment moves along Init, BucketCheck, CreateBucket (if the bucket
\* is missing), Clear, Upload, Done, or to Aborted; no clearing list or delete
\* is issued before the bucket check (or the creation) has succeeded, no put
\* before clearBucket has returned, and Aborted has a non-zero exit code.
C9_OrchestratorOrder ==
  /\ [][(command = "deploy" /\ run' = run /\ mainPc' # mainPc) =>
           <<mainPc, mainPc'>> \in OrchestratorSteps]_vars
  /\ []((listCalls > 0 \/ deleteCalls > 0) => BucketReady)
  /\ [](PutsIssued # {} => clearPc = "returned")
  /\ [](mainPc = "Aborted" => exitCode = 1)

\* A deployment that created the bucket, and went through Clear and Upload to
\* Done.
C9_Witness ==
  /\ mainPc = "Done"
  /\ createCalls = 1
  /\ listCalls > 0
  /\ putOks # {}

\* C10: when the bucket creation fails, or the bucket check fails on the
\* credentials, the run is Aborted with a non-zero exit code and has issued no
\* clearing list, no delete and no put.
C10_NoBucketNoOperation ==
  (CreateFailed \/ BadCredentials) =>
     /\ mainPc = "Aborted"
     /\ exitCode = 1
     /\ listCalls = 0
     /\ deleteCalls = 0
     /\ PutsIssued = {}

\* The creation was refused by the store.
C10_Witness ==
  /\ createResult = 403
  /\ createCalls = 1
  /\ mainPc = "Aborted"

\* createBucket has returned true: main has gone on to call clearBucket.
CreateReturnedTrue == createResult # -1 /\ clearPc # "idle"

\* C11: createBucket returns success exactly when the create request gets a
\* response with a 2xx status or status 409; for every other status and for a
\* transport failure it returns failure and the manual creation instructions
\* are shown.
C11_CreateBucketResult ==
  createResult # -1 =>
    /\ CreateReturnedTrue <=> (createResult \in 200..299 \/ createResult = 409)
    /\ ~CreateReturnedTrue => manualShown

\* The creation was answered with a 2xx status other than 200 and taken as a
\* success.
C11_Witness ==
  /\ createResult = 204
  /\ CreateReturnedTrue
  /\ ~manualShown

\* C12: when the directory scan of uploadFolder fails, uploadFolder throws, the
\* run is Aborted with a non-zero exit code, and no put is ever issued in it.
C12_ScanFailureIsFatal ==
  upPc = "thrown" =>
    /\ mainPc = "Aborted"
    /\ exitCode = 1
    /\ PutsIssued = {}
    /\ InFlightPuts = {}

\* The scan failed after a clearing pass that deleted something.
C12_Witness ==
  /\ upPc = "thrown"
  /\ clearPc = "returned"
  /\ deleteOks > 0

\* clearBucket has thrown because a listing call failed.
ListingThrew == clearPc = "thrown" /\ ~delFailed

\* C13: a failing listing call aborts the clearing pass and the run (Aborted,
\* non-zero exit code, no put issued); the objects deleted before it stay
\* deleted: nothing is put back during or after the pass.
C13_ListingFailureAborts ==
  /\ [](ListingThrew =>
          /\ mainPc = "Aborted"
          /\ exitCode = 1
          /\ PutsIssued = {})
  /\ [][mainPc = "Clear" => (bucket' \subseteq bucket /\ nokey' = nokey)]_vars
  /\ [][ListingThrew => (bucket' = bucket /\ nokey' = nokey)]_vars

\* A listing call failed after a batch had been deleted, with objects left.
C13_Witness ==
  /\ ListingThrew
  /\ deleteOks > 0
  /\ bucket # {}
  /\ Cardinality(bucket) + nokey < clearStart

\* C14: running the command twice in a row on the same unchanged local tree,
\* every operation succeeding, leaves the bucket with the same set of keys
\* after the second run as after the first.
C14_SecondRunSameKeys ==
  (run = 2 /\ mainPc = "Done" /\ putFails = {}) =>
     bucket = firstBucket

\* A second run that deleted what the first had uploaded and uploaded it again.
C14_Witness ==
  /\ run = 2
  /\ mainPc = "Done"
  /\ putFails = {}
  /\ FileCount >= 2
  /\ deleteOks >= 2
  /\ putOks # {}
  /\ bucket = firstBucket

\* C15: for every root folder path as the user may type it, on a host of
\* either separator, and every file found under it, the key computed by
\* uploadFile is the file's path relative to the root: non-empty, without the
\* root prefix, without a leading separator, with forward slashes only.
C15_KeyIsRelativePath ==
  probe.op = "key" => probe.key = RelativeKey(probe.entries)

\* The extension of a relative path: what follows the last dot of its last
\* segment, lower-cased; empty when the segment has no dot.
ExtensionOf(path) ==
  LET segs  == SplitOnSlash(path, <<>>)
      parts == SplitOnDot(toLowerCase(segs[Len(segs)]), <<>>)
  IN  IF Len(parts) > 1 THEN parts[Len(parts)] ELSE <<>>

\* C16: the content type of a put is the type of the local file metadata when
\* present; otherwise the table entry of the file's extension, taken
\* case-insensitively, and application/octet-stream for an extension not in
\* the table and for a name without an extension.
C16_ContentTypeByExtension ==
  probe.op = "type" =>
    probe.type =
      IF probe.fileType # "" THEN probe.fileType
      ELSE IF ExtensionOf(probe.path) \in MimeExtensions
             THEN (CHOOSE p \in mimeTypes : p[1] = ExtensionOf(probe.path))[2]
             ELSE "application/octet-stream"

\* C17: no rate computation divides by zero: when zero milliseconds have
\* elapsed since the start timestamp the divisor is still non-zero, and the
\* rate is a number.
C17_RateNeverDividesByZero ==
  probe.op = "stats" =>
    /\ probe.divisor # 0
    /\ probe.rate.text = "number"

\* C18: when the bucket is empty at the start of clearBucket, clearBucket
\* issues exactly one listing call and no delete call, and, unless that
\* listing call fails, reports 'already empty' and returns normally.
C18_EmptyBucketOneListing ==
  (clearStart = 0 /\ clearPc \notin {"idle", "list"}) =>
     /\ listCalls = 1
     /\ deleteCalls = 0
     /\ ~ListingThrew =>
          /\ clearPc = "returned"
          /\ clearReport = [kind |-> "already empty", total |-> 0]

\* clearBucket has returned from an empty bucket it had just created.
C18_Witness ==
  /\ clearStart = 0
  /\ clearPc = "returned"
  /\ createCalls = 1
  /\ clearReport.kind = "already empty"

\* C19: the deleted count in the final summary of clearBucket is the number of
\* delete calls that completed successfully during the pass; an entry without
\* a successful delete is never counted.
C19_ReportCountsSuccessfulDeletes ==
  /\ totalDeleted =< deleteOks
  /\ clearPc = "returned" => clearReport.total = deleteOks

\* clearBucket has returned after a page that held an entry without a key.
C19_Witness ==
  /\ clearPc = "returned"
  /\ nokey > 0
  /\ deleteOks > 0
  /\ batchCount > 0
  /\ clearReport.total = deleteOks

C21_PagesAreSequential ==
  /\ [](clearPc = "list" => delPending = {})
  /\ [][listCalls' > listCalls => delPending = {}]_vars

\* The second page is about to be listed after the deletes of the first.
C21_Witness ==
  /\ clearPc = "list"
  /\ listCalls = 1
  /\ batchCount = 1
  /\ deleteOks = BATCH_DELETE_SIZE
  /\ delPending = {}

\* C22: the 0.2.0 refactoring changed no behaviour of the sync engine: from
\* every state reached with either version, a step is a step of the refactored
\* clearBucket (uploadFolder) exactly when it is a step of the 0.1.0
\* clearBucket (uploadFolder): the same list, delete and put operations, the
\* same counters and the same normal or exceptional outcome.
C22_RefactoringPreservesSync ==
  [][/\ ClearBucketNext <=> ClearBucketNext010
     /\ UploadFolderNext <=> UploadFolderNext010]_vars

\* A run with deletes, successful puts and a failed put, through to Done.
C22_Witness ==
  /\ mainPc = "Done"
  /\ deleteOks > 0
  /\ batchCount > 1
  /\ putOks # {}
  /\ putFails # {}
  /\ summary.kind = "completed with errors"

\* The domain of the DNS check has more than two dot-separated labels.
DnsIsSubdomain == Len(SplitOnDot(dnsCheck.domain, <<>>)) > 2

\* The resolver gave a CNAME record for the domain and it is the Cellar host.
DnsCnameIsCellar ==
  /\ dnsCheck.cname.ok
  /\ dnsCheck.cname.records # <<>>
  /\ Head(dnsCheck.cname.records) = CELLAR_HOSTNAME

\* C23: checkDnsCname reports success exactly when the domain is a subdomain
\* and its resolved CNAME record is the Cellar host; in every other case it
\* reports failure, and the check-dns command exits with a non-zero code
\* exactly in those cases.
C23_DnsCheckResult ==
  (command = "check-dns" /\ mainPc # "Init") =>
     /\ dnsCheck.called => (dnsCheck.success <=> (DnsIsSubdomain /\ DnsCnameIsCellar))
     /\ (exitCode = 0) <=> (DnsIsSubdomain /\ DnsCnameIsCellar)
     /\ exitCode \in {0, 1}

\* A subdomain with an A record and no CNAME record: the check failed.
C23_Witness ==
  /\ command = "check-dns"
  /\ dnsCheck.called
  /\ DnsIsSubdomain
  /\ ~dnsCheck.cname.ok
  /\ dnsCheck.error = "Domain has A record but no CNAME"
  /\ exitCode = 1

\* C24: the check-dns command is read-only with respect to the bucket: it
\* issues no list, create, delete or put, never enters the Clear or Upload
\* steps, and leaves the store as it is, whatever the DNS result.
C24_CheckDnsIsReadOnly ==
  /\ [](command = "check-dns" =>
          /\ checkResult = "none"
          /\ listCalls = 0
          /\ createCalls = 0
          /\ createResult = -1
          /\ deleteCalls = 0
          /\ PutsIssued = {}
          /\ mainPc \in {"Init", "Returned", "DnsFailed", "Aborted"}
          /\ clearPc = "idle"
          /\ upPc = "idle")
  /\ [][command = "check-dns" => UNCHANGED storeVars]_vars

\* A successful DNS check run against an existing bucket that holds objects.
C24_Witness ==
  /\ command = "check-dns"
  /\ mainPc = "Returned"
  /\ dnsCheck.success
  /\ bucketExists
  /\ bucket # {}

\* C25: a deployment whose --domain is an APEX domain (two or fewer
\* dot-separated labels) is rejected before any network call: the run is
\* Aborted with a non-zero exit code and has issued no list, create, delete or
\* put.
C25_ApexDomainIsRejected ==
  (/\ command = "deploy"
   /\ mainPc # "Init"
   /\ deployDomain.cli
   /\ Len(SplitOnDot(deployDomain.name, <<>>)) =< 2) =>
     /\ mainPc = "Aborted"
     /\ exitCode = 1
     /\ checkResult = "none"
     /\ listCalls = 0
     /\ createCalls = 0
     /\ createResult = -1
     /\ deleteCalls = 0
     /\ PutsIssued = {}

\* A deployment given --domain with two labels, against a bucket with objects.
C25_Witness ==
  /\ command = "deploy"
  /\ deployDomain.cli
  /\ Len(SplitOnDot(deployDomain.name, <<>>)) = 2
  /\ mainPc = "Aborted"
  /\ bucket # {}

\* C26: the shared cursor of uploadFolder is claimed atomically: no index is
\* held by two workers, the indices claimed so far are exactly 0 .. cursor-1,
\* each step hands out the indices from the old cursor up to the new one, and
\* the cursor never exceeds the number of files.
C26_CursorClaimedAtomically ==
  /\ [](/\ fileIndex =< FileCount
        /\ PutsIssued = 1..fileIndex
        /\ \A v, w \in InFlightPuts : v # w => wk[v].idx # wk[w].idx
        /\ \A w \in InFlightPuts : wk[w].idx < fileIndex)
  /\ [][run' = run =>
          /\ fileIndex' >= fileIndex
          /\ PutsIssued' \ PutsIssued = (fileIndex + 1)..fileIndex']_vars

\* Two workers hold two different indices and every file has been claimed.
C26_Witness ==
  /\ Cardinality(InFlightPuts) = 2
  /\ FileCount = 3
  /\ fileIndex = 3
  /\ uploaded + failed = 1

\* The workers the launch loop has started.
Launched == { w \in Workers : wk[w].pc # "none" }

\* C27: the pool is pull-based: a worker has exited only if the cursor has
\* reached the end of the file list, and while a file is unclaimed every
\* launched worker is performing a put (and claims an index at its next
\* step): none is idle or finished.
C27_NoWorkerStopsWhileFilesRemain ==
  upPc = "running" =>
    /\ \A w \in Workers : wk[w].pc = "exit" => fileIndex >= FileCount
    /\ fileIndex < FileCount =>
         /\ Launched = 1..workers
         /\ \A w \in Launched : wk[w].pc = "put"

\* Every worker is uploading and a file is still unclaimed.
C27_Witness ==
  /\ upPc = "running"
  /\ workers = 2
  /\ fileIndex < FileCount
  /\ InFlightPuts = 1..workers

\* ensureBucketExists has returned true: main has gone on to call clearBucket.
EnsureReturnedTrue == clearPc # "idle"

\* C28: ensureBucketExists attempts the creation only when its listing failed
\* with NoSuchBucket; for InvalidAccessKeyId, SignatureDoesNotMatch and every
\* other listing error it returns false without a create request; it returns
\* true only if the listing succeeded or the creation succeeded.
C28_CreateOnlyOnNoSuchBucket ==
  /\ (createCalls > 0 \/ createResult # -1) => checkResult = "NoSuchBucket"
  /\ checkResult \in {"InvalidAccessKeyId", "SignatureDoesNotMatch", "Other"} =>
       /\ createCalls = 0
       /\ ~EnsureReturnedTrue
       /\ mainPc = "Aborted"
  /\ EnsureReturnedTrue =>
       \/ checkResult = "ok"
       \/ /\ checkResult = "NoSuchBucket"
          /\ createCalls = 1
          /\ createResult \in (200..299) \cup {409}

\* The listing failed with an error that is none of the three named ones.
C28_Witness ==
  /\ checkResult = "Other"
  /\ createCalls = 0
  /\ mainPc = "Aborted"
  /\ ~bucketExists

\* C29: uploadFolder emits the full-success summary only if a put has
\* completed successfully for each of the files, whatever the worker count.
C29_FullSuccessMeansAllUploaded ==
  summary.kind = "complete" =>
     /\ uploaded = FileCount
     /\ putOks = FileIndices

\* C30: counter conservation in uploadFolder: uploaded + failed + the puts in
\* flight is the number of indices claimed so far and is at most the number of
\* files; uploaded and failed never decrease during a run; and when
\* uploadFolder finishes with at least one worker, uploaded + failed is the
\* number of files.
C30_CounterConservation ==
  /\ [](/\ uploaded + failed + Cardinality(InFlightPuts) = fileIndex
        /\ fileIndex =< FileCount
        /\ (upPc = "returned" /\ workers >= 1) => uploaded + failed = FileCount)
  /\ [][run' = run => (uploaded' >= uploaded /\ failed' >= failed)]_vars

\* uploadFolder has finished with successes and failures adding up to the
\* number of files.
C30_Witness ==
  /\ upPc = "returned"
  /\ workers >= 1
  /\ uploaded >= 1
  /\ failed >= 1
  /\ uploaded + failed = FileCount
  /\ FileCount = 3

\* C31: when clearBucket has returned or thrown, no delete call it issued is
\* still in flight, also when one delete of the page failed while others were
\* pending.
C31_NoDeleteInFlightAfterClear ==
  clearPc \in {"returned", "thrown"} => delPending = {}

\* The outcome of uploadFolder as a function of the file list and of the set
\* of files whose put fails only.
ExpectedOutcome(fs, root, failing) ==
  LET ok == (0..(Len(fs) - 1)) \ failing IN
  [ keys     |-> { uploadKey(fs[i + 1], root) : i \in ok },
    uploaded |-> Cardinality(ok),
    failed   |-> Cardinality(failing),
    summary  |-> IF failing # {}
                   THEN [kind |-> "completed with errors",
                         ok |-> Cardinality(ok), ko |-> Cardinality(failing)]
                   ELSE [kind |-> "complete", ok |-> Len(fs), ko |-> 0] ]

\* C32: the outcome of uploadFolder does not depend on scheduling: for a file
\* list and a set of files whose put fails, every worker count >= 1 and every
\* interleaving end with the same keys put into the cleared bucket, the same
\* uploaded and failed counts and the same summary.
C32_OutcomeIndependentOfScheduling ==
  (upPc = "returned" /\ workers >= 1) =>
     /\ putOks \cup putFails = FileIndices
     /\ putOks \cap putFails = {}
     /\ bucket = ExpectedOutcome(files, folderPath, putFails).keys
     /\ uploaded = ExpectedOutcome(files, folderPath, putFails).uploaded
     /\ failed = ExpectedOutcome(files, folderPath, putFails).failed
     /\ summary = ExpectedOutcome(files, folderPath, putFails).summary

\* Two workers, three files, the put of the second file failed.
C32_Witness ==
  /\ upPc = "returned"
  /\ workers = 2
  /\ FileCount = 3
  /\ putFails = {1}
  /\ uploaded = 2

\* C33: uploadFolder terminates: for every file list and every worker count,
\* if every put eventually settles, every worker eventually exits and the
\* final summary is eventually emitted.
C33_UploadTerminates ==
  (upPc = "running") ~>
     (/\ upPc = "returned"
      /\ summary # NoSummary
      /\ \A w \in Workers : wk[w].pc \in {"none", "exit"})

\* uploadFolder has finished after its two workers went through three files.
C33_Witness ==
  /\ upPc = "returned"
  /\ summary # NoSummary
  /\ FileCount = 3
  /\ \A w \in 1..2 : wk[w].pc = "exit"
  /\ fileIndex = FileCount

\* C34: clearBucket terminates: if every list and delete call eventually
\* settles, a clearBucket that has been called eventually returns or throws.
C34_ClearTerminates ==
  (clearPc = "list") ~> (clearPc \in {"returned", "thrown"})

\* The pass has returned after a short page.
ReturnedAfterShortPage ==
  /\ clearPc = "returned"
  /\ objectCount > 0
  /\ objectCount < BATCH_DELETE_SIZE

\* C35: a page shorter than BATCH_DELETE_SIZE is the last listing of the pass:
\* while its deletes are awaited and after them, clearBucket issues no list
\* call; when the deletes have succeeded it returns reporting that all objects
\* were deleted, and the objects the page did not name are still in the
\* bucket.
C35_ShortPageEndsClearing ==
  /\ [][(/\ clearPc \in {"await", "returned", "thrown"}
         /\ objectCount > 0
         /\ objectCount < BATCH_DELETE_SIZE)
        => (/\ clearPc' # "list"
            /\ listCalls' =< listCalls
            /\ clearPc' \in {"await", "returned", "thrown", "idle"})]_vars
  /\ [][(/\ clearPc = "await"
         /\ objectCount < BATCH_DELETE_SIZE
         /\ clearPc' = "returned")
        => (/\ clearReport'.kind = "all deleted"
            /\ bucket' = bucket
            /\ nokey' = nokey)]_vars
  /\ [](ReturnedAfterShortPage => clearReport.kind = "all deleted")

\* clearBucket has returned after a short page, reporting that all objects
\* were deleted, and objects that the page did not name are in the bucket.
C35_Witness ==
  /\ ReturnedAfterShortPage
  /\ ClearJustReturned
  /\ run = 1
  /\ listCalls = 1
  /\ clearReport.kind = "all deleted"
  /\ delTrue = objectCount
  /\ bucket # {}

\* C36: uploadFolder throws only out of the directory scan, before any put:
\* once the file list is there it only keeps running or returns.  A failing
\* put stops nothing: uploadFolder and main go on, the puts of the other
\* workers stay in flight, the cursor does not move back, and uploadFolder
\* returns only when no put is in flight.
C36_OnlyScanFailureThrows ==
  /\ [][(upPc' = "thrown" /\ upPc # "thrown")
        => (/\ upPc = "scan"
            /\ putCalls' = putCalls
            /\ InFlightPuts = {})]_vars
  /\ [][upPc = "running" => upPc' \in {"running", "returned"}]_vars
  /\ [][\A i \in putFails' \ putFails :
          /\ upPc' = "running"
          /\ mainPc' = "Upload"
          /\ exitCode' = exitCode
          /\ fileIndex' >= fileIndex
          /\ \A w \in Workers :
               (wk[w].pc = "put" /\ wk[w].idx # i) => wk'[w] = wk[w]]_vars
  /\ [](upPc = "returned" => InFlightPuts = {})

\* A put has failed and uploadFolder is still running with a put of each of
\* two workers in flight.
C36_Witness ==
  /\ upPc = "running"
  /\ mainPc = "Upload"
  /\ putFails # {}
  /\ workers = 2
  /\ Cardinality(InFlightPuts) = 2

====
